---- MODULE Spec2Model ----
(***************************************************************************)
(* Model of src/src/termstructures/yieldtermstructure.rs: the yield term   *)
(* structure with multiplicative jumps, its constructor and set_jumps, the *)
(* reference-date setter and the discount / zero-rate / forward-rate       *)
(* queries.                                                                *)
(*                                                                         *)
(* Numbers.  A Date is a serial day number in a calendar of 365-day years  *)
(* (day 0 = 1 January of year 0).  A Time is an integer count of units of  *)
(* 1/1460000 year, so that one day of an Actual/365 day counter is exactly *)
(* 4000 units and dt = 0.0001 year is exactly 146 units (dt/2 = 73).       *)
(* A discount factor is kept symbolically as mult * discount_impl(at):     *)
(* the record [mult |-> m, at |-> t].  Quote values are small integers,    *)
(* 1 standing for 1.0 and 0 for a non-positive value.                      *)
(*                                                                         *)
(* Failures.  Every operation yields a record whose kind is "Ok" or the    *)
(* kind of the failure that ended it: "OutOfRange" (Base's range check),   *)
(* "InvalidQuote" (assert!(is_valid())), "DomainError" (assert!(.. > 0),   *)
(* assert!(d1 < d2), rate inversion over a non-positive time),             *)
(* "IndexOutOfBounds" (a vector indexed at or past its length),            *)
(* "UnwrapNone" (discount_impl.unwrap() on None) and "Unresolved" (the     *)
(* reference date read before it is set).                                  *)
(***************************************************************************)
EXTENDS Integers, Sequences, FiniteSets

VARIABLES curve, op, result

vars == <<curve, op, result>>

(* ------------------------------ bounds -------------------------------- *)

\* Longest jump list given to new / held by a receiver.
MaxJumps == 2

(* ------------------------- time and calendar -------------------------- *)

\* const dt: Time = 0.0001, in time units.
dt == 146

\* One day of the Actual/365 day counter, in time units.
DayUnits == 4000

DaysPerYear == 365

\* Date::year()
year(d) == d \div DaysPerYear

\* Date::new(31, Month::December, y)
December31(y) == y * DaysPerYear + (DaysPerYear - 1)

\* Date::default()
DateDefault == 0

\* DayCounter::year_fraction(d1, d2)
year_fraction(d1, d2) == (d2 - d1) * DayUnits

Max(a, b) == IF a >= b THEN a ELSE b

(* ------------------------------ outcomes ------------------------------ *)

Ok(v) == [kind |-> "Ok", val |-> v]

Fail(k) == [kind |-> k]

\* Propagation of a failure out of a nested call (a panic unwinds).
Then(r, F(_)) == IF r.kind = "Ok" THEN F(r.val) ELSE r

(* ------------------------------ the curve ----------------------------- *)

\* Option<T>: <<>> is None, <<v>> is Some(v).
None == <<>>

Some(v) == <<v>>

\* impl Default for YieldTermStructure (Base::default() has no reference date).
Default(mt) ==
    [ reference_date   |-> None,
      max_time         |-> mt,
      jumps            |-> <<>>,
      jump_times       |-> <<>>,
      jump_dates       |-> <<>>,
      jumps_num        |-> 0,
      latest_reference |-> None,
      discount_impl    |-> "None" ]

\* Base::reference_date()
reference_date(c) ==
    IF c.reference_date = None THEN Fail("Unresolved") ELSE Ok(c.reference_date[1])

\* Base::max_time()
max_time(c) == c.max_time

\* Base::max_date(): the last date whose time is within max_time.
max_date(c) == Then(reference_date(c), LAMBDA r : Ok(r + (c.max_time \div DayUnits)))

\* Base::time_from_reference(date)
time_from_reference(c, date) ==
    Then(reference_date(c), LAMBDA r : Ok(year_fraction(r, date)))

\* Base::check_range_with_time(time, max_time, extrapolate)
check_range_with_time(time, mt, extrapolate) ==
    IF time < 0 \/ (time > mt /\ ~extrapolate) THEN Fail("OutOfRange") ELSE Ok(TRUE)

\* Base::check_range(date, reference_date, max_date, extrapolate)
check_range(date, ref, md, extrapolate) ==
    IF date < ref \/ (date > md /\ ~extrapolate) THEN Fail("OutOfRange") ELSE Ok(TRUE)

(* ------------------------------ set_jumps ----------------------------- *)

\* Vec::resize_with(n, || fill)
resize_with(s, n, fill) == [i \in 1..n |-> IF i <= Len(s) THEN s[i] ELSE fill]

\* The index range of the loops over the jumps: `for n in 0..=self.jumps_num`.
jump_range(num) == 0..num

\* A loop over jump_range(num) that indexes a vector of length len at every n
\* panics at the first n >= len.
out_of_bounds(num, len) == \E n \in jump_range(num) : n >= len

\* The first branch of set_jumps: default anchors when no dates were given.
\* Yields the curve as the loop leaves it and whether the loop panicked.
default_anchors(c, ref) ==
    IF c.jump_dates = <<>> /\ c.jumps # <<>>
    THEN LET jt == resize_with(c.jump_times, c.jumps_num, 0)
             jd == resize_with(c.jump_dates, c.jumps_num, DateDefault)
             y  == year(ref)
             wr == [i \in 1..Len(jd) |->
                      IF (i - 1) \in jump_range(c.jumps_num)
                      THEN December31(y + (i - 1)) ELSE jd[i]]
         IN  [ curve |-> [c EXCEPT !.jump_times = jt, !.jump_dates = wr],
               panic |-> out_of_bounds(c.jumps_num, Len(jd)) ]
    ELSE [curve |-> c, panic |-> FALSE]

\* The second loop of set_jumps: jump_times[n] = time_from_reference(jump_dates[n]).
recompute_times(c, ref) ==
    LET len == IF Len(c.jump_times) <= Len(c.jump_dates)
               THEN Len(c.jump_times) ELSE Len(c.jump_dates)
        wr  == [i \in 1..Len(c.jump_times) |->
                  IF (i - 1) \in jump_range(c.jumps_num) /\ i <= len
                  THEN year_fraction(ref, c.jump_dates[i]) ELSE c.jump_times[i]]
    IN  [ curve |-> [c EXCEPT !.jump_times = wr],
          panic |-> out_of_bounds(c.jumps_num, len) ]

\* fn set_jumps(&self): the outcome and the curve as the call leaves it.
\* With no reference date, reference_date() fails where it is first read:
\* after the resize in the first branch, else after jump_dates[0] is read.
set_jumps(c) ==
    IF c.reference_date = None
    THEN IF c.jump_dates = <<>> /\ c.jumps # <<>>
         THEN [kind |-> "Unresolved", curve |-> [c EXCEPT
                 !.jump_times = resize_with(c.jump_times, c.jumps_num, 0),
                 !.jump_dates = resize_with(c.jump_dates, c.jumps_num, DateDefault)]]
         ELSE IF c.jump_dates = <<>>
         THEN [kind |-> "IndexOutOfBounds", curve |-> c]
         ELSE [kind |-> "Unresolved", curve |-> c]
    ELSE
    LET ref == c.reference_date[1]
        a   == default_anchors(c, ref)
        b   == recompute_times(a.curve, ref)
    IN  IF a.panic THEN [kind |-> "IndexOutOfBounds", curve |-> a.curve]
        ELSE IF b.panic THEN [kind |-> "IndexOutOfBounds", curve |-> b.curve]
        ELSE [kind |-> "Ok",
              curve |-> [b.curve EXCEPT !.latest_reference = c.reference_date]]

\* pub fn new(..): the outcome and the curve under construction as new leaves it.
new(ref, mt, jumps, jump_dates) ==
    set_jumps([ Default(mt) EXCEPT
                  !.reference_date = Some(ref),
                  !.discount_impl  = "Some",
                  !.jumps          = jumps,
                  !.jump_dates     = jump_dates,
                  !.jumps_num      = Len(jumps) ])

\* pub fn set_reference_date(&self, date)
set_reference_date(c, date) == [c EXCEPT !.reference_date = Some(date)]

(* ------------------------------- queries ------------------------------ *)

\* Quote::is_valid() and Quote::value() of jump n (0-based).
is_valid(c, n) == c.jumps[n + 1].valid

value(c, n) == c.jumps[n + 1].value

\* The test of line 114: jump n lies strictly inside (0, time).
applies(c, n, time) == c.jump_times[n + 1] > 0 /\ c.jump_times[n + 1] < time

\* jump_step without the assertion on is_valid(): an invalid quote's value
\* is multiplied in like any other.
jump_step_unchecked(c, n, time, acc) ==
    IF n >= Len(c.jump_times) THEN Fail("IndexOutOfBounds")
    ELSE IF ~applies(c, n, time) THEN Ok(acc)
    ELSE IF n >= Len(c.jumps) THEN Fail("IndexOutOfBounds")
    ELSE IF ~(value(c, n) > 0) THEN Fail("DomainError")
    ELSE Ok(acc * value(c, n))

\* The body of the jump loop for index n, given the product so far.
jump_step(c, n, time, acc) ==
    IF n >= Len(c.jump_times) THEN Fail("IndexOutOfBounds")
    ELSE IF ~applies(c, n, time) THEN Ok(acc)
    ELSE IF n >= Len(c.jumps) THEN Fail("IndexOutOfBounds")
    ELSE IF ~is_valid(c, n) THEN Fail("InvalidQuote")
    ELSE IF ~(value(c, n) > 0) THEN Fail("DomainError")
    ELSE Ok(acc * value(c, n))

\* The jump loop from index n on: jump_effect, or the failure that ends it.
RECURSIVE jump_effect(_, _, _, _)
jump_effect(c, n, time, acc) ==
    IF n \notin jump_range(c.jumps_num) THEN Ok(acc)
    ELSE Then(jump_step(c, n, time, acc),
              LAMBDA a : jump_effect(c, n + 1, time, a))

\* self.discount_impl.unwrap()(time), scaled by m.
discount_impl(c, m, time) ==
    IF c.discount_impl = "None" THEN Fail("UnwrapNone")
    ELSE Ok([mult |-> m, at |-> time])

\* fn discount_with_time(&self, time, extrapolate)
discount_with_time(c, time, extrapolate) ==
    Then(check_range_with_time(time, max_time(c), extrapolate), LAMBDA ok :
      IF c.jumps = <<>> THEN discount_impl(c, 1, time)
      ELSE Then(jump_effect(c, 0, time, 1), LAMBDA je : discount_impl(c, je, time)))

\* fn discount(&self, date, extrapolate)
discount(c, date, extrapolate) ==
    Then(time_from_reference(c, date), LAMBDA t : discount_with_time(c, t, extrapolate))

\* InterestRate::implied_rate_with_time(compound, day_counter, comp, freq, time)
implied_rate_with_time(compound, dc, time) ==
    IF time <= 0 THEN Fail("DomainError")
    ELSE Ok([compound |-> compound, day_counter |-> dc, time |-> time])

\* InterestRate::implied_rate(compound, day_counter, comp, freq, d1, d2, None, None)
implied_rate(compound, dc, d1, d2) ==
    implied_rate_with_time(compound, dc, year_fraction(d1, d2))

\* compound = 1.0 / discount factor, and a ratio of two discount factors.
Inverse(df) == [one_over |-> df]

Ratio(df1, df2) == [num |-> df1, den |-> df2]

\* fn zero_rate(&self, date, result_day_counter, comp, freq, extrapolate)
zero_rate(c, date, extrapolate) ==
    Then(reference_date(c), LAMBDA ref :
      IF date = ref
      THEN Then(discount_with_time(c, dt, extrapolate), LAMBDA df :
             implied_rate_with_time(Inverse(df), "result", dt))
      ELSE Then(discount(c, date, extrapolate), LAMBDA df :
             implied_rate(Inverse(df), "result", ref, date)))

\* fn zero_rate_with_time(&self, time, comp, freq, extrapolate)
zero_rate_with_time(c, time, extrapolate) ==
    LET t == IF time = 0 THEN dt ELSE time
    IN  Then(discount_with_time(c, dt, extrapolate), LAMBDA df :
          implied_rate_with_time(Inverse(df), "curve", t))

\* fn forward_rate(&self, d1, d2, result_day_counter, comp, freq, extrapolate)
forward_rate(c, d1, d2, extrapolate) ==
    IF d1 = d2
    THEN Then(reference_date(c), LAMBDA ref :
         Then(max_date(c), LAMBDA md :
         Then(check_range(d1, ref, md, extrapolate), LAMBDA ok :
           LET t1 == Max(year_fraction(ref, d1) - dt \div 2, 0)
               t2 == t1 + dt
           IN  Then(discount_with_time(c, t1, TRUE), LAMBDA df1 :
               Then(discount_with_time(c, t2, TRUE), LAMBDA df2 :
                 implied_rate_with_time(Ratio(df1, df2), "result", dt))))))
    ELSE IF ~(d1 < d2) THEN Fail("DomainError")
    ELSE Then(discount(c, d1, extrapolate), LAMBDA df1 :
         Then(discount(c, d2, extrapolate), LAMBDA df2 :
           implied_rate(Ratio(df1, df2), "result", d1, d2)))

\* fn forward_rate_with_time(&self, t1, t2, result_day_counter, comp, freq, extrapolate)
forward_rate_with_time(c, t1, t2, extrapolate) ==
    IF t2 = t1
    THEN Then(check_range_with_time(t1, max_time(c), extrapolate), LAMBDA ok :
           LET u1 == Max(t1 - dt \div 2, 0)
               u2 == u1 + dt
           IN  Then(discount_with_time(c, u1, TRUE), LAMBDA df1 :
               Then(discount_with_time(c, u2, TRUE), LAMBDA df2 :
                 implied_rate_with_time(Ratio(df1, df2), "curve", u2 - u1))))
    ELSE Then(discount_with_time(c, t1, extrapolate), LAMBDA df1 :
         Then(discount_with_time(c, t2, extrapolate), LAMBDA df2 :
           implied_rate_with_time(Ratio(df1, df2), "curve", t2 - t1)))

(* ------------------------- inputs of the model ------------------------ *)

\* A quote: its validity flag and its current value (invalid, valid and not
\* positive, valid and positive).
Quotes ==
    { [valid |-> FALSE, value |-> 0], [valid |-> TRUE, value |-> 0],
      [valid |-> TRUE, value |-> 2] }

\* Reference dates: 1 January and 20 July of year 0.
RefDates == {0, 200}

\* Anchor dates given by the caller: 11 April and 31 December of year 0.
JumpDates == {100, 364}

\* Dates and times asked of the queries (max_time is two years = 730 days).
QueryDates == {0, 200, 400, 1000}

QueryTimes == { -DayUnits, 0, 100 * DayUnits, 300 * DayUnits, 400 * DayUnits,
                800 * DayUnits }

ForwardDates == {200, 400, 1000}

ForwardTimes == {0, 300 * DayUnits, 800 * DayUnits}

MaxTime == 730 * DayUnits

\* The receivers of the queries: curves as new is documented to leave them
\* (jump vectors of length jumps_num, jump_times taken from the reference
\* date, latest_reference set, a discount rule present).
Receivers ==
    UNION { { [ reference_date   |-> Some(ref),
                max_time         |-> MaxTime,
                jumps            |-> js,
                jump_times       |-> [i \in 1..k |-> year_fraction(ref, jd[i])],
                jump_dates       |-> jd,
                jumps_num        |-> k,
                latest_reference |-> Some(ref),
                discount_impl    |-> "Some" ] :
              ref \in RefDates, js \in [1..k -> Quotes], jd \in [1..k -> JumpDates] } :
            k \in 0..MaxJumps }

\* The arguments of new: a jump list with no anchor dates or one for each jump.
NewArguments ==
    UNION { { [jumps |-> js, jump_dates |-> jd] :
              js \in [1..k -> Quotes], jd \in {<<>>} \cup [1..k -> JumpDates] } :
            k \in 0..MaxJumps }

(* ------------------------------- actions ------------------------------ *)

\* The program holds the curve default() returns.
Init ==
    /\ curve = Default(MaxTime)
    /\ op = [name |-> "default"]
    /\ result = Ok(TRUE)

\* The methods are applied to a receiver drawn from Receivers.
InitReceiver ==
    /\ curve \in Receivers
    /\ op = [name |-> "receiver"]
    /\ result = Ok(TRUE)

\* new(.., reference_date, .., jumps, jump_dates, discount_impl): the program
\* holds the new curve if new returns; result.built is the curve new was
\* building, as new left it.
New ==
    \E ref \in RefDates, a \in NewArguments :
      LET r == new(ref, MaxTime, a.jumps, a.jump_dates)
      IN  /\ curve' = IF r.kind = "Ok" THEN r.curve ELSE curve
          /\ result' = [kind |-> r.kind, built |-> r.curve]
          /\ op' = [name |-> "new", reference_date |-> ref, jumps |-> a.jumps,
                    jump_dates |-> a.jump_dates]

\* A further call of set_jumps on the curve.
SetJumps ==
    LET r == set_jumps(curve)
    IN  /\ curve' = r.curve
        /\ result' = IF r.kind = "Ok" THEN Ok(TRUE) ELSE Fail(r.kind)
        /\ op' = [name |-> "set_jumps", before |-> curve]

SetReferenceDate ==
    \E d \in RefDates :
      /\ curve' = set_reference_date(curve, d)
      /\ result' = Ok(TRUE)
      /\ op' = [name |-> "set_reference_date", date |-> d]

Discount ==
    \E d \in QueryDates, e \in BOOLEAN :
      /\ result' = discount(curve, d, e)
      /\ op' = [name |-> "discount", date |-> d, extrapolate |-> e]
      /\ UNCHANGED curve

DiscountWithTime ==
    \E t \in QueryTimes, e \in BOOLEAN :
      /\ result' = discount_with_time(curve, t, e)
      /\ op' = [name |-> "discount_with_time", time |-> t, extrapolate |-> e]
      /\ UNCHANGED curve

ZeroRate ==
    \E d \in QueryDates, e \in BOOLEAN :
      /\ result' = zero_rate(curve, d, e)
      /\ op' = [name |-> "zero_rate", date |-> d, extrapolate |-> e]
      /\ UNCHANGED curve

ZeroRateWithTime ==
    \E t \in QueryTimes, e \in BOOLEAN :
      /\ result' = zero_rate_with_time(curve, t, e)
      /\ op' = [name |-> "zero_rate_with_time", time |-> t, extrapolate |-> e]
      /\ UNCHANGED curve

ForwardRate ==
    \E d1 \in ForwardDates, d2 \in ForwardDates, e \in BOOLEAN :
      /\ result' = forward_rate(curve, d1, d2, e)
      /\ op' = [name |-> "forward_rate", d1 |-> d1, d2 |-> d2, extrapolate |-> e]
      /\ UNCHANGED curve

ForwardRateWithTime ==
    \E t1 \in ForwardTimes, t2 \in ForwardTimes, e \in BOOLEAN :
      /\ result' = forward_rate_with_time(curve, t1, t2, e)
      /\ op' = [name |-> "forward_rate_with_time", t1 |-> t1, t2 |-> t2,
                extrapolate |-> e]
      /\ UNCHANGED curve

Query ==
    \/ Discount
    \/ DiscountWithTime
    \/ ZeroRate
    \/ ZeroRateWithTime
    \/ ForwardRate
    \/ ForwardRateWithTime

\* The public interface, from the curve default() returns.
Next == New \/ SetReferenceDate \/ Query

Spec == Init /\ [][Next]_vars

\* The methods applied to a receiver.
NextReceiver == SetReferenceDate \/ SetJumps \/ Query

SpecReceiver == InitReceiver /\ [][NextReceiver]_vars

(* ------------------------------- claims ------------------------------- *)

\* The range test of Base on a time and on a date of the curve.
InRangeTime(c, t, e) == t >= 0 /\ (t <= c.max_time \/ e)

InRangeDate(c, d, e) ==
    InRangeTime(c, year_fraction(c.reference_date[1], d), e)

IsQuery(name) == op.name = name

\* C1: after new, with any jump list of length N and no or N jump dates,
\* construction has completed, jump_times and jump_dates have length
\* N = jumps_num and jump_times[n] = time_from_reference(jump_dates[n]).
C1_NewEstablishesJumpVectors ==
    IsQuery("new") =>
      /\ result.kind = "Ok"
      /\ result.built.jumps_num = Len(op.jumps)
      /\ Len(result.built.jump_times) = Len(op.jumps)
      /\ Len(result.built.jump_dates) = Len(op.jumps)
      /\ \A i \in 1..Len(op.jumps) :
           result.built.jump_times[i] =
             year_fraction(op.reference_date, result.built.jump_dates[i])

Applied(c, t) == { n \in 0..(c.jumps_num - 1) : applies(c, n, t) }

RECURSIVE Product(_, _)
Product(c, S) ==
    IF S = {} THEN 1
    ELSE LET n == CHOOSE x \in S : TRUE IN value(c, n) * Product(c, S \ {n})

Offending(c, t) ==
    { n \in Applied(c, t) : ~is_valid(c, n) \/ value(c, n) <= 0 }

FirstOffending(c, t) ==
    CHOOSE n \in Offending(c, t) : \A m \in Offending(c, t) : n <= m

\* C7: in discount_with_time on a jumped curve, with the time in range, if
\* some applied jump has an invalid or non-positive quote the query returns
\* no discount factor: it fails at the first such jump, with InvalidQuote if
\* that quote is not valid and with DomainError if its value is <= 0.
C7_BadQuoteFailsTheQuery ==
    ( /\ IsQuery("discount_with_time")
      /\ curve.jumps # <<>>
      /\ InRangeTime(curve, op.time, op.extrapolate)
      /\ Offending(curve, op.time) # {} )
    => LET n == FirstOffending(curve, op.time)
       IN  result = Fail(IF ~is_valid(curve, n) THEN "InvalidQuote" ELSE "DomainError")

\* A query that failed with InvalidQuote at its second jump, after applying a
\* valid positive one, although a later applied quote has a non-positive value.
C7_Witness ==
    /\ IsQuery("discount_with_time")
    /\ curve.jumps # <<>>
    /\ result.kind = "InvalidQuote"
    /\ \E n \in Offending(curve, op.time), m \in Applied(curve, op.time) :
         /\ m < n
         /\ is_valid(curve, m) /\ value(curve, m) > 0
         /\ ~is_valid(curve, n)

\* C8: new with N >= 1 jumps and no jump dates completes with exactly N
\* anchors, jump_dates[n] = 31 December of year(reference_date) + n.
C8_DefaultAnchorsAreYearEnds ==
    IsQuery("new") /\ Len(op.jumps) >= 1 /\ op.jump_dates = <<>> =>
      /\ result.kind = "Ok"
      /\ result.built.jump_dates =
           [i \in 1..Len(op.jumps) |-> December31(year(op.reference_date) + (i - 1))]

C10_NoIndexOutOfBounds == result.kind # "IndexOutOfBounds"

====
